---------------------------- MODULE Spec2Model ----------------------------
(***************************************************************************)
(* VYRA panic-button service (src/app.py): two JSON stores, contacts.json  *)
(* and alerts.json, read and rewritten whole by every request handler.     *)
(* Flask serves each request on its own thread, so the handlers of         *)
(* different requests interleave at their file-system and clock calls;     *)
(* those calls are the atomic steps of this model.                         *)
(*                                                                         *)
(* A Python str is a sequence of one-character strings.                    *)
(* An optional value (JSON null or a missing key) is <<>>, a present one   *)
(* is the one-element sequence <<v>>.                                      *)
(***************************************************************************)
EXTENDS Integers, Sequences, FiniteSets, TLC

\* ------------------------------------------------------------------ bounds
\* number of request threads
NumProcs == 2
\* number of requests to the contacts endpoints in one behaviour
MaxReq == 4
\* number of requests to the alerts endpoints in one behaviour
MaxAlertReq == 3

Procs == 1..NumProcs

\* --------------------------------------------------------- program constants
MAX_CONTACTS == 3
MAX_NAME == 60
MAX_PHONE == 30
KEEP_ALERTS == 100
MS_PER_SEC == 1000
\* length of an ISO-8601 timestamp with seconds and a UTC offset
ISO_LEN == 25
\* digits of int(time.time()*1000): the clock of the model counts the
\* milliseconds since a base instant, the printed id keeps its 13 digits
ID_LEN == 13

\* ------------------------------------------------------------------ strings
WS == {" "}
DigitSeq == <<"0", "1", "2", "3", "4", "5", "6", "7", "8", "9">>
LowerSeq == <<"a", "b", "c", "d", "e", "f", "g", "h", "i", "j", "k", "l", "m",
              "n", "o", "p", "q", "r", "s", "t", "u", "v", "w", "x", "y", "z">>
UpperSeq == <<"A", "B", "C", "D", "E", "F", "G", "H", "I", "J", "K", "L", "M",
              "N", "O", "P", "Q", "R", "S", "T", "U", "V", "W", "X", "Y", "Z">>

IsDigit(ch) == \E i \in 1..Len(DigitSeq) : DigitSeq[i] = ch

UpperChar(ch) ==
    IF \E i \in 1..Len(LowerSeq) : LowerSeq[i] = ch
    THEN UpperSeq[CHOOSE i \in 1..Len(LowerSeq) : LowerSeq[i] = ch]
    ELSE ch

\* str.upper()
Upper(s) == [i \in 1..Len(s) |-> UpperChar(s[i])]

RECURSIVE LStrip(_)
LStrip(s) == IF s # <<>> /\ Head(s) \in WS THEN LStrip(Tail(s)) ELSE s

RECURSIVE RStrip(_)
RStrip(s) ==
    IF s # <<>> /\ s[Len(s)] \in WS THEN RStrip(SubSeq(s, 1, Len(s) - 1)) ELSE s

\* str.strip()
Strip(s) == RStrip(LStrip(s))

\* s[:n]
Prefix(s, n) == SubSeq(s, 1, IF Len(s) < n THEN Len(s) ELSE n)

\* s[-n:]
Suffix(s, n) == SubSeq(s, IF Len(s) < n THEN 1 ELSE Len(s) - n + 1, Len(s))

\* "".join(ch for ch in s if ch.isdigit())
RECURSIVE Digits(_)
Digits(s) ==
    IF s = <<>> THEN <<>>
    ELSE (IF IsDigit(Head(s)) THEN <<Head(s)>> ELSE <<>>) \o Digits(Tail(s))

\* s.replace(" ", "")
RECURSIVE NoSpaces(_)
NoSpaces(s) ==
    IF s = <<>> THEN <<>>
    ELSE (IF Head(s) = " " THEN <<>> ELSE <<Head(s)>>) \o NoSpaces(Tail(s))

\* str(n) of a non-negative int
RECURSIVE IntToStr(_)
IntToStr(n) ==
    IF n < 10 THEN <<DigitSeq[n + 1]>>
    ELSE IntToStr(n \div 10) \o <<DigitSeq[(n % 10) + 1]>>

\* payload.get(key, default) followed by str(): <<>> is a missing key
GetStr(opt, default) == IF opt = <<>> THEN default ELSE opt[1]

\* ------------------------------------------------------------------- files
\* What json.load can see of a file: the document last written from offset
\* 0, the length of the file, and whether bytes of an older, longer document
\* remain after it (every document ends in "]", so such a tail is never
\* white space).  open(tmp, "w") truncates to length 0; json.dump of these
\* documents fits the io buffer and reaches the file in one write at close.
NoFile == [exists |-> FALSE, doc |-> <<>>, len |-> 0, junk |-> FALSE]
Truncated == [exists |-> TRUE, doc |-> <<>>, len |-> 0, junk |-> FALSE]

Stores == {"contacts", "alerts"}

VARIABLES
    now,    \* time.time() in ms since the base instant
    seen,   \* a request has arrived in the millisecond `now`
    path,   \* path[s]: the file CONTACTS_PATH / ALERTS_PATH
    tmp,    \* tmp[s]: the file path + ".tmp"
    pc,     \* pc[p]: where thread p is in its handler
    req,    \* req[p]: the request thread p is serving or served last
    rd,     \* rd[p]: the list the handler got from _read_json
    data,   \* data[p]: the list the handler hands to _write_json
    fd,     \* fd[p]: the file the handle f of _write_json refers to
    resp,   \* resp[p]: the response of the last request of thread p
    nreq,   \* requests received so far
    solo,   \* solo[p]: no other request was in progress during p's
    acked   \* ids of the alerts of acknowledge requests answered ok = true

vars == <<now, seen, path, tmp, pc, req, rd, data, fd, resp, nreq, solo, acked>>

SumLen(f, n) == LET RECURSIVE S(_, _)
                    S(lo, hi) == IF lo > hi THEN 0
                                 ELSE IF lo = hi THEN f[lo]
                                 ELSE LET mid == (lo + hi) \div 2
                                      IN S(lo, mid) + S(mid + 1, hi)
                IN S(1, n)

\* one line `    "key": value` of json.dump(..., indent=2)
KeyLine(klen, vlen) == 4 + 2 + klen + 2 + vlen

\* a str value, no character of the model's alphabet needs an escape
StrLen(s) == Len(s) + 2

ContactLen(c) ==
    4 + KeyLine(4, StrLen(c.name)) + 2 + KeyLine(5, StrLen(c.phone)) + 1 + 3

\* null, or an int
OptLen(o) == IF o = <<>> THEN 4 ELSE Len(IntToStr(o[1]))

AlertLen(a) ==
    4 + KeyLine(2, ID_LEN) + 2
      + KeyLine(2, ISO_LEN + 2) + 2
      + KeyLine(6, StrLen(a.status)) + 2
      + KeyLine(10, StrLen(a.occurrence)) + 2
      + KeyLine(11, StrLen(a.driver_name)) + 2
      + KeyLine(3, OptLen(a.lat)) + 2
      + KeyLine(3, OptLen(a.lng)) + 2
      + KeyLine(8, OptLen(a.accuracy))
      + (IF a.ack_ts = <<>> THEN 0 ELSE 2 + KeyLine(6, ISO_LEN + 2))
      + 1 + 3

\* len(json.dumps(doc, ensure_ascii=False, indent=2))
JsonLen(s, doc) ==
    IF doc = <<>> THEN 2
    ELSE 2 + SumLen([i \in 1..Len(doc) |->
                        IF s = "contacts" THEN ContactLen(doc[i])
                        ELSE AlertLen(doc[i])], Len(doc))
           + 2 * (Len(doc) - 1) + 2

\* the file after writing json.dump(doc) from offset 0 over `old`
Overlay(s, doc, old) ==
    LET n == JsonLen(s, doc) IN
    IF old.len > n
    THEN [exists |-> TRUE, doc |-> <<>>, len |-> old.len, junk |-> TRUE]
    ELSE [exists |-> TRUE, doc |-> doc, len |-> n, junk |-> FALSE]

\* json.load raises on an empty file and on bytes after the document
Malformed(f) == f.exists /\ (f.len = 0 \/ f.junk)

_read_json(f, default) ==
    IF ~f.exists THEN default
    ELSE IF Malformed(f) THEN default
    ELSE f.doc

\* ------------------------------------------------------------- _write_json
StoreOf(op) == IF op \in {"add", "clear_contacts", "list_contacts"}
               THEN "contacts" ELSE "alerts"

Idle(p) == pc[p] = "idle"

\* The server hands a request to a thread that serves no other; the
\* threads being alike, it is the first such thread.
Free(p) == Idle(p) /\ \A q \in 1..(p - 1) : ~Idle(q)

NoRequest == [op |-> "none"]

\* the "ok" of the JSON body and the HTTP status; the rest of a body is the
\* list, alert or status the handler holds when it answers
Response(ok, code) == [ok |-> ok, code |-> code]

\* a request that goes on to further steps: it overlaps every request in
\* progress
Begin(p, r, nextpc) ==
    /\ req' = [req EXCEPT ![p] = r]
    /\ seen' = TRUE
    /\ pc' = [pc EXCEPT ![p] = nextpc]
    /\ nreq' = nreq + 1
    /\ solo' = [q \in Procs |-> IF q = p THEN \A o \in Procs : Idle(o)
                                ELSE solo[q] /\ Idle(q)]
    /\ UNCHANGED acked

\* a request answered in the step that receives it
Answer(p, r, response) ==
    /\ req' = [req EXCEPT ![p] = r]
    /\ seen' = TRUE
    /\ resp' = [resp EXCEPT ![p] = response]
    /\ nreq' = nreq + 1
    /\ UNCHANGED <<pc, solo, acked>>

\* with open(tmp, "w", encoding="utf-8") as f:
WriteOpen(p) ==
    /\ pc[p] = "w_open"
    /\ tmp' = [tmp EXCEPT ![StoreOf(req[p].op)] = Truncated]
    /\ fd' = [fd EXCEPT ![p] = "tmp"]
    /\ pc' = [pc EXCEPT ![p] = "w_dump"]
    /\ UNCHANGED <<now, seen, path, req, rd, data, resp, nreq, solo, acked>>

\* json.dump(data, f, ...) and the close of f, which writes the buffer to
\* the file f was opened on, whatever name that file has by now
WriteDump(p) ==
    LET s == StoreOf(req[p].op) IN
    /\ pc[p] = "w_dump"
    /\ tmp' = IF fd[p] = "tmp"
              THEN [tmp EXCEPT ![s] = Overlay(s, data[p], tmp[s])] ELSE tmp
    /\ path' = IF fd[p] = "path"
               THEN [path EXCEPT ![s] = Overlay(s, data[p], path[s])] ELSE path
    /\ fd' = [fd EXCEPT ![p] = "closed"]
    /\ pc' = [pc EXCEPT ![p] = "w_replace"]
    /\ UNCHANGED <<now, seen, req, rd, data, resp, nreq, solo, acked>>

\* the handles open on the files of store s after os.replace(tmp, path)
Renamed(s) ==
    [q \in Procs |->
        IF StoreOf(req[q].op) # s THEN fd[q]
        ELSE IF fd[q] = "tmp" THEN "path"
        ELSE IF fd[q] = "path" THEN "unlinked"
        ELSE fd[q]]

\* os.replace(tmp, path): FileNotFoundError when another thread has renamed
\* the shared tmp away, and the handler ends in HTTP 500
WriteReplace(p) ==
    LET s == StoreOf(req[p].op) IN
    /\ pc[p] = "w_replace"
    /\ IF tmp[s].exists
       THEN /\ path' = [path EXCEPT ![s] = tmp[s]]
            /\ tmp' = [tmp EXCEPT ![s] = NoFile]
            /\ fd' = Renamed(s)
            /\ resp' = [resp EXCEPT ![p] = Response(TRUE, 200)]
       ELSE /\ resp' = [resp EXCEPT ![p] = Response(FALSE, 500)]
            /\ UNCHANGED <<path, tmp, fd>>
    /\ pc' = [pc EXCEPT ![p] = "idle"]
    /\ rd' = [rd EXCEPT ![p] = <<>>]
    /\ data' = [data EXCEPT ![p] = <<>>]
    /\ acked' = IF tmp[s].exists /\ req[p].op = "ack"
                THEN acked \cup {data[p][req[p].k].id} ELSE acked
    /\ UNCHANGED <<now, seen, req, nreq, solo>>

\* ---------------------------------------------------------------- contacts
\* a name of 61 letters between two spaces
LongName == <<" ">> \o [i \in 1..(MAX_NAME + 1) |-> "z"] \o <<" ">>

\* payload["name"]: missing, blank, padded and longer than 60
NameInputs == {<<>>, << <<" ">> >>, <<LongName>>}

\* payload["phone"]: missing, blank, formatted
PhoneInputs == {<<>>, << <<" ">> >>, << <<" ", "+", "5", "5", " ", "(", "1", ")">> >>}

re_sub_phone(phone0) ==
    LET phone == NoSpaces(phone0)
        plus == IF phone # <<>> /\ Head(phone) = "+" THEN <<"+">> ELSE <<>>
    IN plus \o Digits(phone)

ContactName(payload) == Prefix(Strip(GetStr(payload.name, <<>>)), MAX_NAME)

ContactPhone(payload) == Prefix(Strip(GetStr(payload.phone, <<>>)), MAX_PHONE)

\* mutant: a contact is refused only when both fields are missing
MissingBoth(name, phone) == name = <<>> /\ phone = <<>>

\* if not name or not phone
MissingField(name, phone) == name = <<>> \/ phone = <<>>

\* mutant: the limit test is off by one
LimitPassed(contacts) == Len(contacts) > MAX_CONTACTS

\* if len(contacts) >= 3
LimitReached(contacts) == Len(contacts) >= MAX_CONTACTS

\* contacts.append({...}); n is not a field of the record: it numbers the
\* appends, so that the order of appending can be read off the store
Appended(contacts, name, phone, n) ==
    Append(contacts, [name |-> Upper(name), phone |-> re_sub_phone(phone), n |-> n])

api_get_contacts(p) ==
    /\ Free(p) /\ nreq < MaxReq
    /\ Answer(p, [op |-> "list_contacts"], Response(TRUE, 200))
    /\ UNCHANGED <<now, path, tmp, rd, data, fd>>

api_add_contact(p, payload) ==
    LET name == ContactName(payload)
        phone == ContactPhone(payload)
        contacts == _read_json(path["contacts"], <<>>)
        r == [op |-> "add"]
    IN
    /\ Free(p) /\ nreq < MaxReq
    /\ IF MissingField(name, phone)
       THEN /\ Answer(p, r, Response(FALSE, 400))
            /\ UNCHANGED <<rd, data>>
       ELSE IF LimitReached(contacts)
       THEN /\ Answer(p, r, Response(FALSE, 400))
            /\ UNCHANGED <<rd, data>>
       ELSE /\ Begin(p, r, "w_open")
            /\ rd' = [rd EXCEPT ![p] = contacts]
            /\ data' = [data EXCEPT ![p] = Appended(contacts, name, phone, nreq + 1)]
            /\ UNCHANGED resp
    /\ UNCHANGED <<now, path, tmp, fd>>

api_clear_contacts(p) ==
    /\ Free(p) /\ nreq < MaxReq
    /\ Begin(p, [op |-> "clear_contacts"], "w_open")
    /\ data' = [data EXCEPT ![p] = <<>>]
    /\ UNCHANGED <<now, path, tmp, rd, fd, resp>>

\* ------------------------------------------------------------------ alerts
\* The nine labels, letter by letter, the accented letters written without
\* their accents.
DEFAULT_OCCURRENCES ==
    << <<"A", "b", "o", "r", "d", "a", "g", "e", "m", " ", "s", "u", "s", "p", "e", "i", "t", "a">>,
       <<"T", "e", "n", "t", "a", "t", "i", "v", "a", " ", "d", "e", " ", "a", "s", "s", "a", "l", "t", "o">>,
       <<"A", "m", "e", "a", "c", "a", " ", "/", " ", "i", "n", "t", "i", "m", "i", "d", "a", "c", "a", "o">>,
       <<"P", "a", "s", "s", "a", "g", "e", "i", "r", "o", " ", "a", "g", "r", "e", "s", "s", "i", "v", "o">>,
       <<"S", "e", "g", "u", "i", "m", "e", "n", "t", "o", " ", "/", " ", "p", "e", "r", "s", "e", "g", "u", "i", "c", "a", "o">>,
       <<"S", "e", "q", "u", "e", "s", "t", "r", "o", " ", "r", "e", "l", "a", "m", "p", "a", "g", "o", " ", "(", "s", "u", "s", "p", "e", "i", "t", "a", ")">>,
       <<"E", "m", "e", "r", "g", "e", "n", "c", "i", "a", " ", "m", "e", "d", "i", "c", "a">>,
       <<"P", "a", "n", "e", " ", "/", " ", "r", "i", "s", "c", "o", " ", "n", "a", " ", "v", "i", "a">>,
       <<"O", "u", "t", "r", "o">> >>

S_open == <<"o", "p", "e", "n">>
S_ack == <<"a", "c", "k">>
S_closed == <<"c", "l", "o", "s", "e", "d">>
S_Outro == <<"O", "u", "t", "r", "o">>
S_None == <<"N", "o", "n", "e">>

InSeq(x, s) == \E i \in 1..Len(s) : s[i] = x

\* datetime.now(...).isoformat(timespec="seconds"): the clock cut to seconds
_now_iso == now \div MS_PER_SEC

\* mutant: the label is stored as it was sent
OccurrenceAsSent(payload) ==
    Strip(GetStr(payload.occurrence, DEFAULT_OCCURRENCES[1]))

\* lines 165-167
Occurrence(payload) ==
    LET occurrence == Strip(GetStr(payload.occurrence, DEFAULT_OCCURRENCES[1]))
    IN IF ~InSeq(occurrence, DEFAULT_OCCURRENCES) THEN S_Outro ELSE occurrence

\* the dict of lines 174-183; ack_ts = <<>> is the missing key
NewAlert(payload) ==
    [id |-> now,
     ts |-> _now_iso,
     status |-> S_open,
     occurrence |-> Occurrence(payload),
     driver_name |-> Prefix(Strip(GetStr(payload.driver_name, <<>>)), MAX_NAME),
     lat |-> payload.lat,
     lng |-> payload.lng,
     accuracy |-> payload.accuracy,
     ack_ts |-> <<>>]

\* mutant: the slice keeps the first 100
KeepFirst(alerts, alert) == Prefix(Append(alerts, alert), KEEP_ALERTS)

\* mutant: the list read is not the list written
OnlyNew(alerts, alert) == <<alert>>

\* alerts.append(alert); alerts = alerts[-100:]
KeepLast(alerts, alert) == Suffix(Append(alerts, alert), KEEP_ALERTS)

\* lines 146-148
AckStatus(payload) ==
    LET status == Strip(GetStr(payload.status, S_ack))
    IN IF status \notin {S_ack, S_closed, S_open} THEN S_ack ELSE status

\* str(x) of an id: None, an int or a str
PyStr(x) ==
    IF x = <<>> THEN S_None
    ELSE IF x[1].int # <<>> THEN IntToStr(x[1].int[1])
    ELSE x[1].str

\* mutant: the loop body runs without its test
FirstRecord(alerts, alert_id) == IF Len(alerts) > 0 THEN 1 ELSE 0

\* the position at which the loop of lines 151-156 breaks, 0 if it runs out
FirstMatch(alerts, alert_id) ==
    IF \E i \in 1..Len(alerts) : IntToStr(alerts[i].id) = PyStr(alert_id)
    THEN CHOOSE i \in 1..Len(alerts) :
            /\ IntToStr(alerts[i].id) = PyStr(alert_id)
            /\ \A j \in 1..(i - 1) : IntToStr(alerts[j].id) # PyStr(alert_id)
    ELSE 0

\* mutant: the loop has no break
AckedAll(alerts, k, status) ==
    [i \in 1..Len(alerts) |->
        IF alerts[i].id = alerts[k].id
        THEN [alerts[i] EXCEPT !.status = status, !.ack_ts = <<_now_iso>>]
        ELSE alerts[i]]

\* a["status"] = status; a["ack_ts"] = _now_iso()
Acked(alerts, k, status) ==
    [alerts EXCEPT ![k] = [@ EXCEPT !.status = status, !.ack_ts = <<_now_iso>>]]

IntId(n) == << [int |-> <<n>>, str |-> <<>>] >>
StrId(str) == << [int |-> <<>>, str |-> str] >>

\* payload of POST /api/alert: every key missing; every key present, the
\* strings padded; an occurrence outside the list
EmptyPayload ==
    [occurrence |-> <<>>, driver_name |-> <<>>,
     lat |-> <<>>, lng |-> <<>>, accuracy |-> <<>>]

AlertPayloads ==
    { EmptyPayload,
      [occurrence |-> << <<" ">> \o S_Outro \o <<" ">> >>,
       driver_name |-> << <<" ", "j", "o", " ">> >>,
       lat |-> <<7>>, lng |-> <<8>>, accuracy |-> <<9>>],
      [occurrence |-> << <<"B", "o", "g", "u", "s">> >>,
       driver_name |-> << <<"j", "o">> >>,
       lat |-> <<7>>, lng |-> <<8>>, accuracy |-> <<9>>] }

\* payload["status"]: missing, valid, padded, outside the enum
StatusInputs ==
    {<<>>, <<S_closed>>, << <<" ">> \o S_open \o <<" ">> >>, << <<"d", "o", "n", "e">> >>}

Alerts == _read_json(path["alerts"], <<>>)

\* payload["id"]: missing, or the id of a stored alert or an id no alert
\* has yet, as an int or as the str of that int
IdInputs ==
    LET ids == {Alerts[i].id : i \in 1..Len(Alerts)} \cup {now + 1}
    IN {<<>>} \cup {IntId(n) : n \in ids} \cup {StrId(IntToStr(n)) : n \in ids}

AckPayloads == [id : IdInputs, status : StatusInputs]

api_get_alerts(p) ==
    /\ Free(p) /\ nreq < MaxAlertReq
    /\ Answer(p, [op |-> "list_alerts"], Response(TRUE, 200))
    /\ UNCHANGED <<now, path, tmp, rd, data, fd>>

api_clear_alerts(p) ==
    /\ Free(p) /\ nreq < MaxAlertReq
    /\ Begin(p, [op |-> "clear_alerts"], "w_open")
    /\ data' = [data EXCEPT ![p] = <<>>]
    /\ UNCHANGED <<now, path, tmp, rd, fd, resp>>

\* lines 144-159: the read, the loop and its clock reading are one step
api_ack_alert(p, payload) ==
    LET status == AckStatus(payload)
        alerts == Alerts
        k == FirstMatch(alerts, payload.id)
        changed == k # 0
    IN
    /\ Free(p) /\ nreq < MaxAlertReq
    /\ IF changed
       THEN /\ Begin(p, [op |-> "ack", status |-> status, k |-> k,
                         was |-> alerts[k].status], "w_open")
            /\ rd' = [rd EXCEPT ![p] = alerts]
            /\ data' = [data EXCEPT ![p] = Acked(alerts, k, status)]
            /\ UNCHANGED resp
       ELSE /\ Answer(p, [op |-> "ack"], Response(FALSE, 200))
            /\ UNCHANGED <<rd, data>>
    /\ UNCHANGED <<now, path, tmp, fd>>

\* lines 163-183: the alert is built, with the clock read, before the store
\* is read
api_create_alert(p, payload) ==
    /\ Free(p) /\ nreq < MaxAlertReq
    /\ Begin(p, [op |-> "create", payload |-> payload,
                 alert |-> NewAlert(payload)], "c_read")
    /\ UNCHANGED <<now, path, tmp, rd, data, fd, resp>>

\* lines 185-188
CreateRead(p) ==
    /\ pc[p] = "c_read"
    /\ rd' = [rd EXCEPT ![p] = Alerts]
    /\ data' = [data EXCEPT ![p] = KeepLast(Alerts, req[p].alert)]
    /\ pc' = [pc EXCEPT ![p] = "w_open"]
    /\ UNCHANGED <<now, seen, path, tmp, req, fd, resp, nreq, solo, acked>>

\* The clock moves on to the next millisecond in which a request arrives:
\* only whether two readings of the clock are equal shows in an id.
Tick ==
    /\ seen
    /\ now' = now + 1
    /\ seen' = FALSE
    /\ UNCHANGED <<path, tmp, pc, req, rd, data, fd, resp, nreq, solo, acked>>

Init ==
    /\ now = 0
    /\ seen = FALSE
    /\ path = [s \in Stores |-> NoFile]
    /\ tmp = [s \in Stores |-> NoFile]
    /\ pc = [p \in Procs |-> "idle"]
    /\ req = [p \in Procs |-> NoRequest]
    /\ rd = [p \in Procs |-> <<>>]
    /\ data = [p \in Procs |-> <<>>]
    /\ fd = [p \in Procs |-> "closed"]
    /\ resp = [p \in Procs |-> Response(TRUE, 0)]
    /\ nreq = 0
    /\ solo = [p \in Procs |-> TRUE]
    /\ acked = {}

ContactPayloads == [name : NameInputs, phone : PhoneInputs]

NextContacts ==
    \E p \in Procs :
        \/ api_get_contacts(p)
        \/ \E payload \in ContactPayloads : api_add_contact(p, payload)
        \/ api_clear_contacts(p)
        \/ WriteOpen(p)
        \/ WriteDump(p)
        \/ WriteReplace(p)

SpecContacts == Init /\ [][NextContacts]_vars

NextAlerts ==
    \/ Tick
    \/ \E p \in Procs :
        \/ api_get_alerts(p)
        \/ \E payload \in AlertPayloads : api_create_alert(p, payload)
        \/ CreateRead(p)
        \/ \E payload \in AckPayloads : api_ack_alert(p, payload)
        \/ api_clear_alerts(p)
        \/ WriteOpen(p)
        \/ WriteDump(p)
        \/ WriteReplace(p)

SpecAlerts == Init /\ [][NextAlerts]_vars

\* The alert store after n create requests handled one after the other, a
\* millisecond apart, each with an empty payload.
Prefill(n) ==
    [i \in 1..n |->
        [id |-> i - 1,
         ts |-> (i - 1) \div MS_PER_SEC,
         status |-> S_open,
         occurrence |-> DEFAULT_OCCURRENCES[1],
         driver_name |-> <<>>,
         lat |-> <<>>, lng |-> <<>>, accuracy |-> <<>>,
         ack_ts |-> <<>>]]

PrefillSizes == {0} \cup ((KEEP_ALERTS - 2)..KEEP_ALERTS)

\* the alert store is empty, or has reached or is about to reach its limit
InitFull ==
    \E n \in PrefillSizes :
        /\ now = n
        /\ seen = FALSE
        /\ path = [s \in Stores |->
                     IF s = "alerts" /\ n > 0
                     THEN Overlay(s, Prefill(n), NoFile) ELSE NoFile]
        /\ tmp = [s \in Stores |-> NoFile]
        /\ pc = [p \in Procs |-> "idle"]
        /\ req = [p \in Procs |-> NoRequest]
        /\ rd = [p \in Procs |-> <<>>]
        /\ data = [p \in Procs |-> <<>>]
        /\ fd = [p \in Procs |-> "closed"]
        /\ resp = [p \in Procs |-> Response(TRUE, 0)]
        /\ nreq = 0
        /\ solo = [p \in Procs |-> TRUE]
        /\ acked = {}

\* the server takes the next request when it has answered the last one
Serial == \A q \in Procs : Idle(q)

NextCreate ==
    \/ Tick
    \/ \E p \in Procs :
        \/ Serial /\ api_get_alerts(p)
        \/ \E payload \in AlertPayloads : Serial /\ api_create_alert(p, payload)
        \/ CreateRead(p)
        \/ WriteOpen(p)
        \/ WriteDump(p)
        \/ WriteReplace(p)

SpecCreate == InitFull /\ [][NextCreate]_vars

\* ------------------------------------------------------------------ claims
Contacts == _read_json(path["contacts"], <<>>)

\* C1: whatever the interleaving of add and clear requests, the contact
\* list a reader gets has at most 3 entries, in the order of their appends.
C1_ContactsBounded ==
    /\ Len(Contacts) <= 3
    /\ \A i, j \in 1..Len(Contacts) : i < j => Contacts[i].n < Contacts[j].n

\* two adds read the same two contacts, and the store holds three
C1_Witness ==
    /\ Len(Contacts) = 3
    /\ \E p, q \in Procs :
        /\ p # q
        /\ pc[p] = "idle" /\ resp[p] = Response(TRUE, 200)
        /\ pc[q] = "w_replace" /\ Len(rd[q]) = 2 /\ rd[q] = SubSeq(Contacts, 1, 2)
        /\ data[q] # Contacts

\* C2: an add request whose name or phone is empty after strip and cut, or
\* that reads 3 or more contacts, is answered 400 with ok = false in that
\* step, and neither the store file nor its temp file changes.
C2_RejectedAddWritesNothing ==
    [][\A p \in Procs, payload \in ContactPayloads :
          ( /\ api_add_contact(p, payload)
            /\ \/ Prefix(Strip(GetStr(payload.name, <<>>)), 60) = <<>>
               \/ Prefix(Strip(GetStr(payload.phone, <<>>)), 30) = <<>>
               \/ Len(Contacts) >= 3 )
          => /\ resp'[p] = Response(FALSE, 400)
             /\ pc'[p] = "idle"
             /\ path' = path /\ tmp' = tmp]_vars

\* a fourth contact was refused
C2_Witness ==
    /\ Len(Contacts) = 3
    /\ \E p \in Procs : pc[p] = "idle" /\ resp[p].code = 400
    /\ nreq >= 4

\* C8: a reader never finds a partial or mixed store file, and no rename
\* fails.
C8_AtomicWrites ==
    /\ \A s \in Stores : ~Malformed(path[s])
    /\ \A p \in Procs : resp[p].code # 500

\* C3: the alert store never holds more than 100 alerts, and a create
\* request handled on its own leaves in the store the alerts it read
\* followed by the new one, less the oldest ones when that makes more than
\* 100: the new alert is last, the order is kept.
C3_KeepsLast100 ==
    /\ [](Len(Alerts) <= 100)
    /\ [][\A p \in Procs :
            (pc[p] = "w_replace" /\ pc'[p] = "idle" /\ req[p].op = "create" /\ solo[p])
            => LET all == Append(rd[p], req[p].alert)
                   drop == IF Len(all) > 100 THEN Len(all) - 100 ELSE 0
               IN /\ rd[p] = Alerts
                  /\ resp'[p] = Response(TRUE, 200)
                  /\ Len(Alerts') = Len(all) - drop
                  /\ \A i \in 1..Len(Alerts') : Alerts'[i] = all[i + drop]
                  /\ Alerts'[Len(Alerts')] = req[p].alert]_vars

\* 101 alerts were created: 100 are stored, the first is gone, the last is
\* the new one
C3_Witness ==
    /\ Len(Alerts) = 100
    /\ Alerts[1] = Prefill(2)[2]
    /\ Alerts[99] = Prefill(100)[100]
    /\ \E p \in Procs : pc[p] = "idle" /\ req[p].op = "create"
                        /\ Alerts[100] = req[p].alert
    /\ nreq = 1

NoMatch(alerts, alert_id) ==
    \A i \in 1..Len(alerts) : IntToStr(alerts[i].id) # PyStr(alert_id)

\* C4: an acknowledge request whose id is the id of no stored alert is
\* answered ok = false in that step and changes neither the store file nor
\* its temp file.
C4_UnknownIdWritesNothing ==
    [][\A p \in Procs, payload \in AckPayloads :
          (api_ack_alert(p, payload) /\ NoMatch(Alerts, payload.id))
          => /\ resp'[p] = Response(FALSE, 200)
             /\ pc'[p] = "idle"
             /\ path' = path /\ tmp' = tmp]_vars

\* an acknowledge request found no alert in a store that holds one
C4_Witness ==
    /\ Len(Alerts) > 0
    /\ \E p \in Procs : pc[p] = "idle" /\ req[p].op = "ack"
                        /\ resp[p] = Response(FALSE, 200)

\* the status an acknowledge request asks for
Wanted(payload) ==
    LET st == Strip(GetStr(payload.status, S_ack))
    IN IF st = S_open \/ st = S_ack \/ st = S_closed THEN st ELSE S_ack

\* `after` is `before` with the record at k given the status and an ack_ts
OnlyChanged(before, after, k, status) ==
    /\ Len(after) = Len(before)
    /\ \A i \in 1..Len(before) : i # k => after[i] = before[i]
    /\ after[k].status = status
    /\ after[k].ack_ts # <<>>
    /\ after[k].id = before[k].id
    /\ after[k].ts = before[k].ts
    /\ after[k].occurrence = before[k].occurrence
    /\ after[k].driver_name = before[k].driver_name
    /\ after[k].lat = before[k].lat
    /\ after[k].lng = before[k].lng
    /\ after[k].accuracy = before[k].accuracy

\* C5: an acknowledge request whose id some stored alert has hands to
\* _write_json the list it read with one record changed, the first with that
\* id: it has the status asked for ("ack" if that is none of open, ack,
\* closed) and an ack_ts, and nothing else differs.  Handled on its own the
\* request is answered ok = true and that list is the store.
C5_AckChangesFirstMatch ==
    [][\A p \in Procs :
        /\ \A payload \in AckPayloads :
            (api_ack_alert(p, payload) /\ ~NoMatch(Alerts, payload.id))
            => \E k \in 1..Len(Alerts) :
                /\ IntToStr(Alerts[k].id) = PyStr(payload.id)
                /\ \A j \in 1..(k - 1) : IntToStr(Alerts[j].id) # PyStr(payload.id)
                /\ pc'[p] = "w_open"
                /\ OnlyChanged(Alerts, data'[p], k, Wanted(payload))
        /\ (pc[p] = "w_replace" /\ pc'[p] = "idle" /\ req[p].op = "ack" /\ solo[p])
            => /\ resp'[p] = Response(TRUE, 200)
               /\ Alerts' = data[p]
               /\ OnlyChanged(Alerts, Alerts', req[p].k, req[p].status)]_vars

\* two alerts have one id; an acknowledge request has changed the first and
\* left the second
C5_Witness ==
    /\ Len(Alerts) = 2
    /\ Alerts[1].id = Alerts[2].id
    /\ Alerts[1].status = S_closed /\ Alerts[1].ack_ts # <<>>
    /\ Alerts[2].status = S_open /\ Alerts[2].ack_ts = <<>>
    /\ \E p \in Procs : pc[p] = "idle" /\ req[p].op = "ack" /\ solo[p]
                        /\ resp[p] = Response(TRUE, 200)

\* C6: no two stored alerts have the same id.
C6_UniqueIds ==
    \A i, j \in 1..Len(Alerts) : i # j => Alerts[i].id # Alerts[j].id

\* C7: every stored alert has one of the nine labels; a create request is
\* never refused, and the alert it builds has status "open" and the label
\* asked for, stripped, if that is one of the nine and "Outro" if not.
C7_OccurrenceInList ==
    /\ [](\A i \in 1..Len(Alerts) :
            \E n \in 1..9 : Alerts[i].occurrence = DEFAULT_OCCURRENCES[n])
    /\ [][\A p \in Procs, payload \in AlertPayloads :
            api_create_alert(p, payload)
            => LET asked == Strip(GetStr(payload.occurrence, DEFAULT_OCCURRENCES[1]))
                   alert == req'[p].alert
               IN /\ pc'[p] = "c_read"
                  /\ alert.status = S_open
                  /\ alert.occurrence =
                        IF \E n \in 1..9 : asked = DEFAULT_OCCURRENCES[n]
                        THEN asked ELSE S_Outro]_vars

\* an alert asked for with an occurrence outside the list is stored as
\* "Outro"
C7_Witness ==
    \E p \in Procs :
        /\ pc[p] = "idle" /\ req[p].op = "create"
        /\ resp[p] = Response(TRUE, 200)
        /\ req[p].payload.occurrence = << <<"B", "o", "g", "u", "s">> >>
        /\ \E i \in 1..Len(Alerts) :
            Alerts[i] = req[p].alert /\ Alerts[i].occurrence = S_Outro

\* `after` is the store a request r leaves when it finds `before` and no
\* other request touches the store until r is answered
Applied(r, before, after) ==
    CASE r.op = "create" ->
            LET all == Append(before, r.alert)
            IN after = SubSeq(all, IF Len(all) > KEEP_ALERTS
                                    THEN Len(all) - KEEP_ALERTS + 1 ELSE 1, Len(all))
      [] r.op = "ack" -> OnlyChanged(before, after, r.k, r.status)
      [] OTHER -> after = <<>>

\* C9: a mutating request that no other request overlaps is answered ok and
\* leaves the store it found with its own update applied, so no update
\* is lost; requests that overlap can both be answered ok with the store
\* holding the update of one of them only (the witness).
C9_NoLossWithoutOverlap ==
    [][\A p \in Procs :
        (pc[p] = "w_replace" /\ pc'[p] = "idle" /\ solo[p])
        => /\ resp'[p] = Response(TRUE, 200)
           /\ Applied(req[p], Alerts, Alerts')]_vars

\* two create requests were both answered ok; the store holds the alert of
\* one of them and not the alert of the other
C9_Witness ==
    \E p, q \in Procs :
        /\ p # q /\ nreq = 2
        /\ pc[p] = "idle" /\ req[p].op = "create" /\ resp[p] = Response(TRUE, 200)
        /\ pc[q] = "idle" /\ req[q].op = "create" /\ resp[q] = Response(TRUE, 200)
        /\ req[p].alert # req[q].alert
        /\ Alerts = <<req[q].alert>>

\* the status of every stored alert is open, ack or closed, and an
\* acknowledge request that finds its alert gives it the status asked for
\* whatever status it had
C10_ClosedOverEnum ==
    /\ [](\A i \in 1..Len(Alerts) :
            /\ Alerts[i].status \in {S_open, S_ack, S_closed}
            /\ Alerts[i].status # S_open => Alerts[i].ack_ts # <<>>)
    /\ [][\A p \in Procs, payload \in AckPayloads :
            (api_ack_alert(p, payload) /\ ~NoMatch(Alerts, payload.id))
            => /\ req'[p].was \in {S_open, S_ack, S_closed}
               /\ req'[p].was = rd'[p][req'[p].k].status
               /\ data'[p][req'[p].k].status = Wanted(payload)]_vars

\* C10: every stored alert has status open, ack or closed; a stored alert
\* that is not open has the id of an acknowledge request that was answered
\* ok = true; and an acknowledge request that finds its alert gives it the
\* status asked for whatever status it had.
C10_StatusMachine ==
    /\ C10_ClosedOverEnum
    /\ [](\A i \in 1..Len(Alerts) :
            Alerts[i].status # S_open => Alerts[i].id \in acked)

\* a closed alert was acknowledged back to open
C10_ClosedToOpen ==
    \E p \in Procs :
        /\ pc[p] = "idle" /\ req[p].op = "ack" /\ resp[p] = Response(TRUE, 200)
        /\ req[p].was = S_closed /\ req[p].status = S_open
        /\ Len(Alerts) >= req[p].k
        /\ Alerts[req[p].k].status = S_open
        /\ Alerts[req[p].k].ack_ts # <<>>

\* every request is answered, the one acknowledge request among them with
\* status 500, and the store holds an alert that is not open
C10_Witness ==
    /\ \A p \in Procs : Idle(p)
    /\ acked = {}
    /\ \E p \in Procs : req[p].op = "ack" /\ resp[p] = Response(FALSE, 500)
    /\ \A p \in Procs : req[p].op = "ack" => resp[p] = Response(FALSE, 500)
    /\ \E i \in 1..Len(Alerts) : Alerts[i].status # S_open

====
